---- MODULE Spec2Model ----
(***************************************************************************)
(* A model of src/src/iterative_ensemble_smoother/ies.cpp: the update step *)
(* of the iterative ensemble smoother (calc_num_significant, svdS,         *)
(* lowrankE, lowrankCinv, genX3, subspace_inversion, exact_inversion,      *)
(* create_coefficient_matrix, makeD).                                      *)
(*                                                                         *)
(* Numbers.  A double is modelled as a pair <<n, d>>: the rational n/d in  *)
(* lowest terms with d > 0, or one of the IEEE special values              *)
(*     <<1, 0>> = +inf     <<-1, 0>> = -inf     <<0, 0>> = NaN.            *)
(* The arithmetic below is IEEE arithmetic on these values (x/0, 0*inf,    *)
(* inf-inf, comparisons with NaN) with every finite result exact, unless   *)
(* an operation is given a significand width p > 0, in which case the      *)
(* finite result is rounded to p significant bits, ties to even (a double  *)
(* has p = 53; the exponent range is not bounded).  Signed zeros are not   *)
(* distinguished.                                                          *)
(*                                                                         *)
(* Matrices are sequences of rows; an m x n matrix is a sequence of m      *)
(* sequences of length n (m >= 1, n >= 1).                                 *)
(*                                                                         *)
(* Three specifications: Spec follows create_coefficient_matrix statement  *)
(* by statement on a caller's W; SpecRank applies calc_num_significant and *)
(* SpecMakeD applies makeD to arguments drawn from bounded sets.           *)
(***************************************************************************)
EXTENDS Integers, Sequences, FiniteSets, TLC

(***************************************************************************)
(* Scalars                                                                 *)
(***************************************************************************)
Abs(i) == IF i < 0 THEN -i ELSE i

Sgn(i) == IF i < 0 THEN -1 ELSE IF i = 0 THEN 0 ELSE 1

RECURSIVE GCD(_, _)
GCD(a, b) == IF b = 0 THEN a ELSE GCD(b, a % b)

\* The value n/d (d any integer): lowest terms, positive denominator; n/0 is
\* +inf, -inf or NaN by the sign of n.
Q(n, d) ==
    IF d = 0 THEN <<Sgn(n), 0>>
    ELSE LET g == GCD(Abs(n), Abs(d))
         IN  <<Sgn(d) * (n \div g), Abs(d) \div g>>

Zero == <<0, 1>>
One == <<1, 1>>
PInf == <<1, 0>>
NInf == <<-1, 0>>
NaN == <<0, 0>>

IsNaN(x) == x = NaN
IsInf(x) == x[2] = 0 /\ x[1] # 0
IsFinite(x) == x[2] # 0

Pow2(k) == 2 ^ k

\* x rounded to p significant bits, round-half-to-even; p = 0 is no rounding.
RECURSIVE RoundScaled(_, _, _, _)
RoundScaled(a, d, e, p) ==
    IF a < Pow2(p - 1) * d THEN RoundScaled(2 * a, d, e - 1, p)
    ELSE IF a >= Pow2(p) * d THEN RoundScaled(a, 2 * d, e + 1, p)
    ELSE LET q == a \div d
             rem == a % d
             m == IF 2 * rem > d \/ (2 * rem = d /\ q % 2 = 1) THEN q + 1 ELSE q
         IN  IF e >= 0 THEN Q(m * Pow2(e), 1) ELSE Q(m, Pow2(-e))

Round(x, p) ==
    IF p = 0 \/ ~IsFinite(x) \/ x[1] = 0 THEN x
    ELSE LET r == RoundScaled(Abs(x[1]), x[2], 0, p)
         IN  <<Sgn(x[1]) * r[1], r[2]>>

\* IEEE addition, multiplication, division on the exact values.  (Common
\* factors are cancelled before multiplying, which keeps the intermediate
\* integers small.)
AddQ(x, y) ==
    IF IsInf(x) /\ IsInf(y) THEN (IF x = y THEN x ELSE NaN)
    ELSE IF x[2] = 0 \/ y[2] = 0 THEN Q(x[1] * y[2] + y[1] * x[2], 0)
    ELSE LET g == GCD(x[2], y[2])
         IN  Q(x[1] * (y[2] \div g) + y[1] * (x[2] \div g), (x[2] \div g) * y[2])

NegQ(x) == <<-x[1], x[2]>>

SubQ(x, y) == AddQ(x, NegQ(y))

MulQ(x, y) ==
    IF x[2] = 0 \/ y[2] = 0 \/ x[1] = 0 \/ y[1] = 0
    THEN Q(Sgn(x[1]) * Sgn(y[1]), x[2] * y[2])
    ELSE LET g == GCD(Abs(x[1]), y[2])
             h == GCD(Abs(y[1]), x[2])
         IN  <<(x[1] \div g) * (y[1] \div h), (x[2] \div h) * (y[2] \div g)>>

\* x / y is x * (1/y); 1/0 is +inf.
DivQ(x, y) == MulQ(x, Q(y[2], y[1]))

\* x < y as the hardware decides it: false when either side is NaN.
LessQ(x, y) ==
    IF IsNaN(x) \/ IsNaN(y) THEN FALSE
    ELSE IF IsInf(x) \/ IsInf(y)
         THEN (IF IsInf(x) /\ IsInf(y) THEN x[1] < y[1]
               ELSE IF IsInf(x) THEN x[1] < 0 ELSE y[1] > 0)
         ELSE x[1] * y[2] < y[1] * x[2]

\* The same operations in p-bit floating point (p = 0: exact).
FAdd(x, y, p) == Round(AddQ(x, y), p)
FMul(x, y, p) == Round(MulQ(x, y), p)
FDiv(x, y, p) == Round(DivQ(x, y), p)

\* The largest s in lo..hi with s * s <= k (lo * lo <= k).
RECURSIVE FloorSqrt(_, _, _)
FloorSqrt(k, lo, hi) ==
    IF lo = hi THEN lo
    ELSE IF ((lo + hi + 1) \div 2) * ((lo + hi + 1) \div 2) <= k
         THEN FloorSqrt(k, (lo + hi + 1) \div 2, hi)
         ELSE FloorSqrt(k, lo, ((lo + hi + 1) \div 2) - 1)

\* The integer square root of k >= 0 (46340 is the largest integer whose
\* square is a 32-bit integer, the width of TLC's integers).
ISqrt(k) == FloorSqrt(k, 0, IF k < 46340 THEN k ELSE 46340)

IsSquare(k) == ISqrt(k) * ISqrt(k) = k

\* sqrt of a value whose square root is rational (HasSqrt); sqrt(+inf) = +inf,
\* sqrt of a negative value, of -inf or of NaN is NaN.
HasSqrt(x) == ~IsFinite(x) \/ x[1] < 0 \/ (IsSquare(x[1]) /\ IsSquare(x[2]))

SqrtQ(x) ==
    IF x = PInf THEN PInf
    ELSE IF ~IsFinite(x) \/ x[1] < 0 THEN NaN
    ELSE <<ISqrt(x[1]), ISqrt(x[2])>>

(***************************************************************************)
(* Vectors and matrices (Eigen's VectorXd, MatrixXd)                       *)
(***************************************************************************)
Rows(A) == Len(A)
Cols(A) == Len(A[1])

\* F applied to the value of e.  (An operator's argument and a LET
\* definition are evaluated anew at every place they are used; a bound
\* variable holds a value.)  Bind(e, LAMBDA x : body) reads "let x = e in body".
Bind(e, F(_)) == CHOOSE v \in {F(x) : x \in {e}} : TRUE

RECURSIVE SumSeq(_)
SumSeq(s) == IF s = <<>> THEN Zero ELSE AddQ(s[1], SumSeq(Tail(s)))

ZeroM(m, n) == [i \in 1..m |-> [j \in 1..n |-> Zero]]

IdentityM(m) == [i \in 1..m |-> [j \in 1..m |-> IF i = j THEN One ELSE Zero]]

\* VectorXd::asDiagonal() assigned to a MatrixXd: a dense square matrix.
AsDiagonal(v) ==
    Bind(v, LAMBDA d :
        [i \in 1..Len(d) |-> [j \in 1..Len(d) |-> IF i = j THEN d[i] ELSE Zero]])

Transpose(A) ==
    Bind(A, LAMBDA M : [j \in 1..Cols(M) |-> [i \in 1..Rows(M) |-> M[i][j]]])

MatAdd(A, B) ==
    Bind(A, LAMBDA M : Bind(B, LAMBDA N :
        [i \in 1..Rows(M) |-> [j \in 1..Cols(M) |-> AddQ(M[i][j], N[i][j])]]))

MatSub(A, B) ==
    Bind(A, LAMBDA M : Bind(B, LAMBDA N :
        [i \in 1..Rows(M) |-> [j \in 1..Cols(M) |-> SubQ(M[i][j], N[i][j])]]))

Scale(c, A) ==
    Bind(c, LAMBDA x : Bind(A, LAMBDA M :
        [i \in 1..Rows(M) |-> [j \in 1..Cols(M) |-> MulQ(x, M[i][j])]]))

\* The dense product: every term of every inner product is formed and added,
\* so 0 * inf = NaN terms propagate as they do in Eigen.
MatMul(A, B) ==
    Bind(A, LAMBDA M : Bind(B, LAMBDA N :
        [i \in 1..Rows(M) |-> [j \in 1..Cols(N) |->
            SumSeq([k \in 1..Cols(M) |-> MulQ(M[i][k], N[k][j])])]]))

IsFiniteM(A) == \A i \in 1..Rows(A) : \A j \in 1..Cols(A) : IsFinite(A[i][j])

Min(a, b) == IF a < b THEN a ELSE b

\* Gauss-Jordan elimination on the augmented matrix [A | I], column c
\* onwards, pivoting on the first row with a non-zero entry.  A column
\* without a pivot (singular matrix) yields a matrix of NaN.
RECURSIVE Eliminate(_, _)
Eliminate(M0, c) ==
    Bind(M0, LAMBDA M :
        IF c > Rows(M) THEN M
        ELSE IF \A r \in c..Rows(M) : M[r][c] = Zero
        THEN [i \in 1..Rows(M) |-> [j \in 1..Cols(M) |-> NaN]]
        ELSE Bind(CHOOSE r \in c..Rows(M) :
                      M[r][c] # Zero /\ \A q \in c..(r - 1) : M[q][c] = Zero,
             LAMBDA p :
             Bind([j \in 1..Cols(M) |-> DivQ(M[p][j], M[p][c])], LAMBDA prow :
                 Eliminate([i \in 1..Rows(M) |->
                     IF i = c THEN prow
                     ELSE Bind(IF i = p THEN M[c] ELSE M[i], LAMBDA row :
                              [j \in 1..Cols(M) |->
                                  SubQ(row[j], MulQ(row[c], prow[j]))])],
                     c + 1))))

\* The inverse of a square matrix.
Inverse(A) ==
    Bind(Eliminate([i \in 1..Rows(A) |-> [j \in 1..(2 * Cols(A)) |->
                       IF j <= Cols(A) THEN A[i][j]
                       ELSE IF j - Cols(A) = i THEN One ELSE Zero]], 1),
         LAMBDA G : [i \in 1..Rows(A) |-> [j \in 1..Cols(A) |-> G[i][j + Cols(A)]]])

(***************************************************************************)
(* Eigen's bdcSvd(ComputeThinU) of an m x n matrix: U (m x r) and the      *)
(* singular values in decreasing order (length r), r = min(m, n).          *)
(*                                                                         *)
(* The factorisation is computed for the matrices whose thin SVD is        *)
(* rational: the rows of M are mutually orthogonal and each row norm is    *)
(* rational (Representable).  Then M = U * diag(sv) * V' with column j of  *)
(* U the unit vector of the row with the j-th largest norm.                *)
(* For a matrix with a non-finite entry the decomposition reports          *)
(* InvalidInput and leaves its factors unset: every entry read from them   *)
(* is the unspecified value g.                                             *)
(***************************************************************************)
Dot(u, v) == SumSeq([k \in 1..Len(u) |-> MulQ(u[k], v[k])])

\* The squared norms of the rows of M.
RowNorms2(M) == [i \in 1..Rows(M) |-> Dot(M[i], M[i])]

Representable(M0) ==
    Bind(M0, LAMBDA M :
        \/ ~IsFiniteM(M)
        \/ /\ \A i \in 1..Rows(M) : HasSqrt(Dot(M[i], M[i]))
           /\ \A i \in 1..Rows(M) : \A j \in 1..Rows(M) :
                  i # j => Dot(M[i], M[j]) = Zero)

\* The rows by decreasing norm (equal norms by index); n2 are the squared norms.
RowOrder(n2) ==
    CHOOSE p \in [1..Len(n2) -> 1..Len(n2)] :
        /\ \A i \in 1..Len(n2) : \A j \in 1..Len(n2) : i # j => p[i] # p[j]
        /\ \A i \in 1..Len(n2) : \A j \in 1..Len(n2) :
              i < j => \/ LessQ(n2[p[j]], n2[p[i]])
                       \/ (n2[p[j]] = n2[p[i]] /\ p[i] < p[j])

ThinSVD(M0, g) ==
    Bind(M0, LAMBDA M :
        IF ~IsFiniteM(M)
        THEN [matrixU |-> [i \in 1..Rows(M) |-> [j \in 1..Min(Rows(M), Cols(M)) |-> g]],
              singularValues |-> [j \in 1..Min(Rows(M), Cols(M)) |-> g]]
        ELSE Bind(RowNorms2(M), LAMBDA n2 : Bind(RowOrder(n2), LAMBDA p :
                 [matrixU |-> [i \in 1..Rows(M) |-> [j \in 1..Min(Rows(M), Cols(M)) |->
                                  IF i = p[j] THEN One ELSE Zero]],
                  singularValues |-> [j \in 1..Min(Rows(M), Cols(M)) |->
                                         SqrtQ(n2[p[j]])]])))

(***************************************************************************)
(* calc_num_significant (lines 18-38), in p-bit arithmetic (p = 0: exact). *)
(***************************************************************************)
\* VectorXd::squaredNorm(): the squares added in index order.
RECURSIVE squaredNorm(_, _)
squaredNorm(v, p) ==
    IF Len(v) = 0 THEN Zero
    ELSE FAdd(squaredNorm(SubSeq(v, 1, Len(v) - 1), p),
              FMul(v[Len(v)], v[Len(v)], p), p)

\* A variant of the loop that goes on while the fraction is <= truncation.
RECURSIVE SignificantLoop_NonStrict(_, _, _, _, _, _, _)
SignificantLoop_NonStrict(singular_values, truncation, total_sigma2, i, running_sigma2, num_significant, p) ==
    IF i > Len(singular_values) THEN num_significant
    ELSE IF ~LessQ(truncation, FDiv(running_sigma2, total_sigma2, p))
         THEN Bind(FAdd(running_sigma2,
                        FMul(singular_values[i], singular_values[i], p), p),
                   LAMBDA next_sigma2 :
                       SignificantLoop_NonStrict(singular_values, truncation,
                           total_sigma2, i + 1, next_sigma2, num_significant + 1, p))
         ELSE num_significant

\* The loop of lines 28-35 from its i-th iteration on.
RECURSIVE SignificantLoop(_, _, _, _, _, _, _)
SignificantLoop(singular_values, truncation, total_sigma2, i, running_sigma2, num_significant, p) ==
    IF i > Len(singular_values) THEN num_significant
    ELSE IF LessQ(FDiv(running_sigma2, total_sigma2, p), truncation)
         THEN Bind(FAdd(running_sigma2,
                        FMul(singular_values[i], singular_values[i], p), p),
                   LAMBDA next_sigma2 :
                       SignificantLoop(singular_values, truncation, total_sigma2,
                                       i + 1, next_sigma2, num_significant + 1, p))
         ELSE num_significant

calc_num_significant(singular_values, truncation, p) ==
    Bind(squaredNorm(singular_values, p), LAMBDA total_sigma2 :
        SignificantLoop(singular_values, truncation, total_sigma2, 1, Zero, 0, p))

(***************************************************************************)
(* svdS (lines 59-80).  truncation is the std::variant<double, int>:       *)
(* [tag |-> "int", val |-> k] or [tag |-> "double", val |-> <<n, d>>].     *)
(* out_of_range tells whether line 77 indexes inv_sig0 from a position     *)
(* beyond its end (num_significant > r): the block then has negative size. *)
(* inv_sig0 is given as it is when that statement writes nothing.          *)
(***************************************************************************)
IntTrunc(k) == [tag |-> "int", val |-> k]
DoubleTrunc(x) == [tag |-> "double", val |-> x]

cwiseInverse(v) == [i \in 1..Len(v) |-> DivQ(One, v[i])]

\* Line 77: inv_sig0(seq(num_significant, last)).setZero().
ZeroTail(inv_sig0, num_significant) ==
    [i \in 1..Len(inv_sig0) |-> IF i > num_significant THEN Zero ELSE inv_sig0[i]]

svdS(S, truncation, g) ==
    Bind(ThinSVD(S, g), LAMBDA svd :
    Bind(IF truncation.tag = "int" THEN truncation.val
         ELSE calc_num_significant(svd.singularValues, truncation.val, 0),
         LAMBDA num_significant :
        [num_significant |-> num_significant,
         U0 |-> svd.matrixU,
         singular_values |-> svd.singularValues,
         inv_sig0 |-> ZeroTail(cwiseInverse(svd.singularValues), num_significant),
         out_of_range |-> num_significant > Len(svd.singularValues)]))

(***************************************************************************)
(* genX3 (lines 46-57): X3 = W * ((diag(eig[0..nrmin-1]) * W') * D).       *)
(***************************************************************************)
genX3(X1, D, eig) ==
    Bind(AsDiagonal(SubSeq(eig, 1, Min(Rows(D), Cols(D)))), LAMBDA Lambda_inv :
    Bind(MatMul(Lambda_inv, Transpose(X1)), LAMBDA X1t :
    Bind(MatMul(X1t, D), LAMBDA X2 :
        MatMul(X1, X2))))

(***************************************************************************)
(* lowrankE (lines 86-118) and lowrankCinv (lines 120-153): the factor X1  *)
(* (the parameter W of the source) and the vector eig.  sv0 is the result  *)
(* of svdS(S, truncation, ...).                                            *)
(***************************************************************************)
\* Line 106: X0 = Sigma_inv * U0' * E.
lowrankE_X0(sv0, E) ==
    MatMul(MatMul(AsDiagonal(sv0.inv_sig0), Transpose(sv0.U0)), E)

lowrankE(S, E, truncation, g) ==
    Bind(svdS(S, truncation, g), LAMBDA sv0 :
    Bind(AsDiagonal(sv0.inv_sig0), LAMBDA Sigma_inv :
    Bind(ThinSVD(lowrankE_X0(sv0, E), g), LAMBDA svd :
        [X1 |-> MatMul(MatMul(sv0.U0, Transpose(Sigma_inv)), svd.matrixU),
         eig |-> [i \in 1..Min(Rows(S), Cols(S)) |->
                     DivQ(One, AddQ(One, MulQ(svd.singularValues[i],
                                              svd.singularValues[i])))],
         svd0 |-> sv0])))

\* A variant of lowrankCinv_B without the factor (nrens - 1).
lowrankCinv_B_Unscaled(sv0, nrens, R) ==
    Bind(AsDiagonal(sv0.inv_sig0), LAMBDA Sigma_inv :
        MatMul(MatMul(MatMul(MatMul(Sigma_inv,
            Transpose(sv0.U0)), R), sv0.U0), Transpose(Sigma_inv)))

\* Lines 139-140: B = (nrens - 1) * Sigma_inv * U0' * R * U0 * Sigma_inv'.
lowrankCinv_B(sv0, nrens, R) ==
    Bind(AsDiagonal(sv0.inv_sig0), LAMBDA Sigma_inv :
        MatMul(MatMul(MatMul(MatMul(Scale(<<nrens - 1, 1>>, Sigma_inv),
            Transpose(sv0.U0)), R), sv0.U0), Transpose(Sigma_inv)))

lowrankCinv(S, R, truncation, g) ==
    Bind(svdS(S, truncation, g), LAMBDA sv0 :
    Bind(AsDiagonal(sv0.inv_sig0), LAMBDA Sigma_inv :
    Bind(ThinSVD(lowrankCinv_B(sv0, Cols(S), R), g), LAMBDA svd :
        [X1 |-> MatMul(sv0.U0, MatMul(Sigma_inv, svd.matrixU)),
         eig |-> [i \in 1..Min(Rows(S), Cols(S)) |->
                     DivQ(One, AddQ(One, svd.singularValues[i]))],
         svd0 |-> sv0])))

(***************************************************************************)
(* enum struct Inversion (line 16).  Any int can be converted to the enum, *)
(* so a caller can pass a value that names no enumerator.                  *)
(***************************************************************************)
exact == 0
subspace_exact_r == 1
subspace_re == 3
Unrecognized == 2

\* std::nullopt for the optional R; also an unset local.
Null == <<>>

(***************************************************************************)
(* exact_inversion (lines 195-208).  C = S'S + I is symmetric positive     *)
(* definite, so its SVD is its eigendecomposition C = V diag(sigma) V' and *)
(* V * diag(1/sigma) * V' is the inverse of C.                             *)
(***************************************************************************)
exact_inversion(W0, S, H, ies_steplength) ==
    Bind(MatAdd(MatMul(Transpose(S), S), IdentityM(Cols(S))), LAMBDA C :
        MatSub(W0, Scale(ies_steplength,
            MatSub(W0, MatMul(MatMul(Inverse(C), Transpose(S)), H)))))

(***************************************************************************)
(* subspace_inversion (lines 158-190).  The result is a record:            *)
(*   status "ok":                  W is the updated matrix;                *)
(*   status "bad_optional_access": R.value() threw (line 177), W is as it  *)
(*                                 was;                                    *)
(*   status "undefined":           an Eigen expression was given operands  *)
(*                                 whose sizes do not fit, W is as it was. *)
(* out_of_range is svdS's; svd0 is what svdS produced (Null if not run).   *)
(* g is the content of storage that is read without having been written.   *)
(***************************************************************************)
SubspaceResult(status, W0, sv0) ==
    [status |-> status, W |-> W0, svd0 |-> sv0,
     out_of_range |-> IF sv0 = Null THEN FALSE ELSE sv0.out_of_range]

\* Lines 184-189 with the factors f = [X1, eig].
SubspaceUpdate(W0, S, H, f, ies_steplength) ==
    Bind(genX3(f.X1, H, f.eig), LAMBDA X3 :
        MatAdd(MatMul(Scale(ies_steplength, Transpose(S)), X3),
               Scale(SubQ(One, ies_steplength), W0)))

subspace_inversion(W0, ies_inversion, E, R, S, H, truncation, ies_steplength, g) ==
    Bind(DivQ(One, SqrtQ(<<Cols(S) - 1, 1>>)), LAMBDA nsc :
        IF ies_inversion = subspace_re
        THEN IF Rows(E) # Rows(S) \/ Cols(E) < Min(Cols(S), Rows(S))
             THEN SubspaceResult("undefined", W0, Null)
             ELSE Bind(lowrankE(S, Scale(nsc, E), truncation, g), LAMBDA f :
                      SubspaceResult("ok",
                          SubspaceUpdate(W0, S, H, f, ies_steplength), f.svd0))
        ELSE IF ies_inversion = subspace_exact_r
        THEN IF R = Null
             THEN SubspaceResult("bad_optional_access", W0, Null)
             ELSE IF Rows(R) # Rows(S) \/ Cols(R) # Rows(S)
             THEN SubspaceResult("undefined", W0, Null)
             ELSE Bind(lowrankCinv(S, Scale(nsc, Scale(nsc, R)), truncation, g),
                       LAMBDA f :
                      SubspaceResult("ok",
                          SubspaceUpdate(W0, S, H, f, ies_steplength), f.svd0))
        ELSE \* default: break;  X1 stays zero, eig stays unset
             SubspaceResult("ok",
                 SubspaceUpdate(W0, S, H,
                     [X1 |-> ZeroM(Rows(S), Min(Cols(S), Rows(S))),
                      eig |-> [i \in 1..Cols(S) |-> g]], ies_steplength), Null))

(***************************************************************************)
(* create_coefficient_matrix (lines 226-273), statement by statement.      *)
(***************************************************************************)
\* W.rowwise().mean(): the mean of each row.
RowMean(A, i) == DivQ(SumSeq(A[i]), <<Cols(A), 1>>)

\* Lines 238-240.
ComputeOmegaOf(W0, ens_size) ==
    Bind(DivQ(One, SqrtQ(<<ens_size - 1, 1>>)), LAMBDA nsc :
        [i \in 1..Rows(W0) |-> [j \in 1..Cols(W0) |->
            AddQ(MulQ(nsc, SubQ(W0[i][j], RowMean(W0, i))),
                 IF i = j THEN One ELSE Zero)]])

\* Line 246 with OmegaT the transposed Omega: fullPivLu().solve() of a
\* non-singular system.
SolveS(OmegaT, Y) == Transpose(MatMul(Inverse(OmegaT), Transpose(Y)))

\* Line 252.
Innovation(D, S, W0) == MatAdd(D, MatMul(S, W0))

\* A variant of makeD that computes S - E.
makeD_Reversed(obs_values, E, S) ==
    Bind(MatSub(S, E), LAMBDA D :
        [i \in 1..Rows(D) |-> [j \in 1..Cols(D) |-> AddQ(D[i][j], obs_values[i])]])

(***************************************************************************)
(* makeD (lines 275-283): D = E - S, then obs_values added to each column. *)
(***************************************************************************)
makeD(obs_values, E, S) ==
    Bind(MatSub(E, S), LAMBDA D :
        [i \in 1..Rows(D) |-> [j \in 1..Cols(D) |-> AddQ(D[i][j], obs_values[i])]])


(***************************************************************************)
(* The state: the caller's W and one call of create_coefficient_matrix at  *)
(* a time (section 5: calls on one W are serialized).                      *)
(***************************************************************************)
VARIABLES
    W,        \* MatrixXd &W: the coefficient matrix the caller holds
    pc,       \* where the current call stands: "idle", "line238", "line245",
              \* "line252", "line265", "returned", "thrown" (an exception
              \* left the call), "aborted" (an Eigen assertion ended the
              \* process), "undefined" (out-of-bounds access)
    call,     \* the arguments of the current call
    W_entry,  \* the value W had when the current call began
    Omega,    \* local Omega (Null until computed)
    S,        \* local S
    H,        \* local H
    svd0,     \* what svdS produced in this call (Null if it did not run)
    ret,      \* the matrix returned (Null if none)
    error,    \* the exception that left the call ("none" if none)
    rankSel,  \* a call of calc_num_significant: its arguments, the
              \* floating-point precision p, and the value returned
    residual  \* a call of makeD: its arguments and the matrix returned

vars == <<W, pc, call, W_entry, Omega, S, H, svd0, ret, error, rankSel, residual>>

\* The model follows the caller through the calls made with a finite W
\* whose entries n/d have |n| <= MaxEntry and d <= MaxEntry.
MaxEntry == 2

Bounded(A) ==
    \A i \in 1..Rows(A) : \A j \in 1..Cols(A) :
        /\ IsFinite(A[i][j])
        /\ Abs(A[i][j][1]) <= MaxEntry
        /\ A[i][j][2] <= MaxEntry

IntM(rows) ==
    [i \in 1..Len(rows) |-> [j \in 1..Len(rows[i]) |-> <<rows[i][j], 1>>]]

\* Initial coefficient matrices for ensembles of n = 2 and n = 5
\* realizations (sqrt(n - 1) is rational): zero, one with constant rows
\* (Omega = I) and one for which Omega is not the identity.
InitialW ==
    { ZeroM(2, 2),
      IntM(<<<<1, 1>>, <<-1, -1>>>>),
      IntM(<<<<0, 0>>, <<0, 2>>>>),
      ZeroM(5, 5) }

\* Predicted-response matrices Y: 1, 2 and 3 responses of 2 realizations,
\* 1 and 2 responses of 5 realizations.
Ys ==
    { IntM(<<<<3, 4>>>>),
      IntM(<<<<0, 0>>>>),
      IntM(<<<<-1, 8>>>>),
      IntM(<<<<0, 1>>, <<2, 0>>>>),
      IntM(<<<<3, 4>>, <<0, 0>>>>),
      IntM(<<<<0, 0>>, <<3, 4>>, <<-8, 6>>>>),
      IntM(<<<<1, 1, 1, 1, 0>>>>),
      IntM(<<<<0, 0, 0, 0, 1>>, <<2, 2, 2, 2, 0>>>>) }

DOf(m, n) == [i \in 1..m |-> [j \in 1..n |-> <<i + j - 2, 1>>]]

EOf(m, n) == [i \in 1..m |-> [j \in 1..n |-> IF i = j THEN <<i, 1>> ELSE Zero]]

ROf(m) == [i \in 1..m |-> [j \in 1..m |-> IF i = j THEN <<i * i, 1>> ELSE Zero]]

Steps == {Zero, <<1, 2>>, One}

Truncations ==
    {DoubleTrunc(One), DoubleTrunc(<<1, 2>>), IntTrunc(1), IntTrunc(2), IntTrunc(3)}

Garbage == {Zero, One, NaN}

Args(Y, R, E, D, ies_inversion, truncation, ies_steplength) ==
    [Y |-> Y, R |-> R, E |-> E, D |-> D, ies_inversion |-> ies_inversion,
     truncation |-> truncation, ies_steplength |-> ies_steplength]

\* The calls the model makes.  m x n is the shape of Y; an operand with
\* m + 1 rows violates the shape invariants.  Operands a mode does not read
\* take one value.
Inputs ==
    UNION { LET m == Rows(Y)
                n == Cols(Y)
            IN  { Args(Y, Null, E, D, exact, DoubleTrunc(One), st) :
                      E \in {EOf(m, n), EOf(m + 1, n)},
                      D \in {DOf(m, n), DOf(m + 1, n)}, st \in Steps }
                \cup
                { Args(Y, R, EOf(m, n), DOf(m, n), subspace_exact_r, t, st) :
                      R \in {Null, IdentityM(m), ROf(m), IdentityM(m + 1)},
                      t \in Truncations, st \in {Zero, One} }
                \cup
                { Args(Y, Null, E, DOf(m, n), subspace_re, t, st) :
                      E \in {EOf(m, n), EOf(m + 1, n)},
                      t \in Truncations, st \in {Zero, One} }
                \cup
                { Args(Y, Null, EOf(m, n), DOf(m, n), Unrecognized,
                       DoubleTrunc(One), st) : st \in {Zero, One} }
          : Y \in Ys }

\* The calls whose factorisations the model can compute: Omega is
\* non-singular, and in the subspace modes the matrices handed to the SVD
\* are Representable.
Modelled(W0, in) ==
    /\ Cols(in.Y) = Cols(W0)
    /\ HasSqrt(<<Cols(in.Y) - 1, 1>>)
    /\ \E OmegaT \in {Transpose(ComputeOmegaOf(W0, Cols(in.Y)))} :
          \E S0 \in {SolveS(OmegaT, in.Y)} :
          /\ IsFiniteM(S0)
          /\ in.ies_inversion \in {subspace_re, subspace_exact_r} =>
                \E nsc \in {DivQ(One, SqrtQ(<<Cols(in.Y) - 1, 1>>))} :
                   /\ Representable(S0)
                   /\ (in.ies_inversion = subspace_re /\ Rows(in.E) = Rows(in.Y)) =>
                         Representable(lowrankE_X0(svdS(S0, in.truncation, NaN),
                                                   Scale(nsc, in.E)))
                   /\ (in.ies_inversion = subspace_exact_r /\ in.R # Null
                           /\ Rows(in.R) = Rows(in.Y)) =>
                         Representable(lowrankCinv_B(svdS(S0, in.truncation, NaN),
                                           Cols(S0), Scale(nsc, Scale(nsc, in.R))))

Init ==
    /\ W \in InitialW
    /\ pc = "idle"
    /\ call = Null
    /\ W_entry = Null
    /\ Omega = Null
    /\ S = Null
    /\ H = Null
    /\ svd0 = Null
    /\ ret = Null
    /\ error = "none"
    /\ rankSel = Null
    /\ residual = Null

\* The caller calls create_coefficient_matrix.
Begin ==
    /\ pc = "idle"
    /\ Bounded(W)
    /\ \E in \in Inputs :
          /\ Modelled(W, in)
          /\ call' = in
    /\ pc' = "line238"
    /\ W_entry' = W
    /\ UNCHANGED <<W, Omega, S, H, svd0, ret, error, rankSel, residual>>

\* A variant of ComputeOmega that centres W in place.
ComputeOmega_InPlace ==
    /\ pc = "line238"
    /\ Omega' = ComputeOmegaOf(W, Cols(call.Y))
    /\ W' = Omega'
    /\ pc' = "line245"
    /\ UNCHANGED <<call, W_entry, S, H, svd0, ret, error, rankSel, residual>>

\* Lines 235-240.
ComputeOmega ==
    /\ pc = "line238"
    /\ Omega' = ComputeOmegaOf(W, Cols(call.Y))
    /\ pc' = "line245"
    /\ UNCHANGED <<W, call, W_entry, S, H, svd0, ret, error, rankSel, residual>>

\* Lines 245-246.
Solve ==
    /\ pc = "line245"
    /\ Omega' = Transpose(Omega)
    /\ S' = SolveS(Omega', call.Y)
    /\ pc' = "line252"
    /\ UNCHANGED <<W, call, W_entry, H, svd0, ret, error, rankSel, residual>>

\* Line 252.  D + S * W with D of another shape than S * W is an Eigen
\* assertion failure, or an out-of-bounds read where assertions are
\* compiled out.
ComputeH ==
    /\ pc = "line252"
    /\ IF Rows(call.D) = Rows(S) /\ Cols(call.D) = Cols(W)
       THEN /\ H' = Innovation(call.D, S, W)
            /\ pc' = "line265"
       ELSE /\ H' = H
            /\ pc' \in {"aborted", "undefined"}
    /\ UNCHANGED <<W, call, W_entry, Omega, S, svd0, ret, error, rankSel, residual>>

\* Lines 265-272.
DispatchResult(g) ==
    IF call.ies_inversion = exact
    THEN SubspaceResult("ok", exact_inversion(W, S, H, call.ies_steplength), Null)
    ELSE subspace_inversion(W, call.ies_inversion, call.E, call.R, S, H,
                            call.truncation, call.ies_steplength, g)

Dispatch ==
    /\ pc = "line265"
    /\ \E g \in Garbage : \E build \in {"assertions", "no assertions"} :
        \E res \in {DispatchResult(g)} :
        \E stops \in {(res.status = "undefined" \/ res.out_of_range)
                           /\ build = "assertions"} :
              /\ svd0' = res.svd0
              /\ pc' = IF res.status = "bad_optional_access" THEN "thrown"
                       ELSE IF stops THEN "aborted"
                       ELSE IF res.status = "undefined" THEN "undefined"
                       ELSE "returned"
              /\ error' = IF res.status = "bad_optional_access"
                          THEN "bad_optional_access" ELSE "none"
              /\ W' = IF stops THEN W ELSE res.W
              /\ ret' = IF pc' = "returned" THEN W' ELSE Null
    /\ UNCHANGED <<call, W_entry, Omega, S, H, rankSel, residual>>

\* The call is over: the caller has the returned matrix, or has caught the
\* exception, and the call's locals are gone.
Finish ==
    /\ pc \in {"returned", "thrown"}
    /\ pc' = "idle"
    /\ call' = Null
    /\ W_entry' = Null
    /\ Omega' = Null
    /\ S' = Null
    /\ H' = Null
    /\ svd0' = Null
    /\ ret' = Null
    /\ error' = "none"
    /\ UNCHANGED <<W, rankSel, residual>>

Next == Begin \/ ComputeOmega \/ Solve \/ ComputeH \/ Dispatch \/ Finish

Spec == Init /\ [][Next]_vars

(***************************************************************************)
(* Properties of create_coefficient_matrix.                                *)
(***************************************************************************)
Rank(A) == Min(Rows(A), Cols(A))

\* The shape invariants: Y, E, D are m x n, W is n x n, R (if present) m x m.
ShapesValid(c, W0) ==
    /\ Rows(c.E) = Rows(c.Y) /\ Cols(c.E) = Cols(c.Y)
    /\ Rows(c.D) = Rows(c.Y) /\ Cols(c.D) = Cols(c.Y)
    /\ Rows(W0) = Cols(c.Y) /\ Cols(W0) = Cols(c.Y)
    /\ c.R # Null => (Rows(c.R) = Rows(c.Y) /\ Cols(c.R) = Rows(c.Y))

\* A truncation within the data model: a rank in 1..r or a fraction in (0, 1].
ValidTruncation(t, r) ==
    IF t.tag = "int" THEN 1 <= t.val /\ t.val <= r
    ELSE LessQ(Zero, t.val) /\ ~LessQ(One, t.val)

ValidCall(c, W0) ==
    /\ c.ies_inversion \in {exact, subspace_exact_r, subspace_re}
    /\ c.ies_inversion = subspace_exact_r => c.R # Null
    /\ ShapesValid(c, W0)
    /\ ValidTruncation(c.truncation, Rank(c.Y))
    /\ IsFiniteM(W0)

\* What a call in Exact mode returns for W0, Y, D and a step length.
ExactCall(W0, Y, D, ies_steplength) ==
    LET S0 == SolveS(Transpose(ComputeOmegaOf(W0, Cols(Y))), Y)
    IN  exact_inversion(W0, S0, Innovation(D, S0, W0), ies_steplength)

C2_StepZeroLeavesW ==
    (/\ pc = "returned"
     /\ call.ies_steplength = Zero
     /\ ValidCall(call, W_entry))
        => (W = W_entry /\ ret = W_entry)

\* C4: an integer truncation above r = min(m, n) is clamped: the rank svdS
\* returns is at most r and line 77 indexes no position beyond the vector.
C4_IntegerRankClamped ==
    (/\ svd0 # Null
     /\ call.truncation.tag = "int"
     /\ call.truncation.val > Rank(S))
        => (svd0.num_significant <= Rank(S) /\ ~svd0.out_of_range)

\* C5: a SubspaceWithCovariance call without R fails before Omega, S and H
\* are computed, and never returns.
C5_MissingRFailsFirst ==
    (/\ pc # "idle"
     /\ call.ies_inversion = subspace_exact_r
     /\ call.R = Null)
        => /\ pc \in {"line238", "thrown"}
           /\ Omega = Null /\ S = Null /\ H = Null

\* C6: a call whose mode is none of the three enumerators never returns
\* normally and never writes W.
C6_UnrecognizedModeFails ==
    (/\ pc # "idle"
     /\ call.ies_inversion \notin {exact, subspace_exact_r, subspace_re})
        => (pc # "returned" /\ W = W_entry)

\* C7: a call whose operands violate the shape invariants fails before
\* anything is computed: Omega, S and H are never computed and the call
\* neither returns nor runs into an out-of-bounds access.
C7_ShapeMismatchRejected ==
    (pc # "idle" /\ ~ShapesValid(call, W_entry))
        => /\ pc \in {"line238", "thrown"}
           /\ Omega = Null /\ S = Null /\ H = Null

\* C9: svdS outputs U with r = min(m, n) columns and a vector of length r
\* whose first k entries are 1/sigma_i and whose entries k+1..r are zero,
\* k being the retained rank.
C9_TruncatedSvdOutput ==
    svd0 # Null =>
        /\ Rows(svd0.U0) = Rows(S) /\ Cols(svd0.U0) = Rank(S)
        /\ Len(svd0.inv_sig0) = Rank(S)
        /\ svd0.num_significant \in 0..Rank(S)
        /\ \A i \in 1..svd0.num_significant :
              svd0.inv_sig0[i] = DivQ(One, svd0.singular_values[i])
        /\ \A i \in (svd0.num_significant + 1)..Rank(S) : svd0.inv_sig0[i] = Zero

\* C10: W is written at most once per call, as the last step: up to the
\* dispatch, and when the call ends with the exception for the absent R,
\* the caller's W is the W from before the call; S and H are computed from
\* that W; a returned matrix is the W the caller then holds.
C10_WWrittenLast ==
    /\ pc \in {"line238", "line245", "line252", "line265", "thrown"} => W = W_entry
    /\ pc \in {"line265", "thrown", "returned"} =>
          /\ S = SolveS(Transpose(ComputeOmegaOf(W_entry, Cols(call.Y))), call.Y)
          /\ H = Innovation(call.D, S, W_entry)
    /\ pc = "thrown" =>
          /\ call.ies_inversion = subspace_exact_r /\ call.R = Null
          /\ error = "bad_optional_access"
    /\ pc = "returned" => ret = W

\* A SubspaceWithCovariance call without R has ended with the exception,
\* from a W that is not zero.
C10_Witness ==
    /\ pc = "thrown"
    /\ call.ies_inversion = subspace_exact_r
    /\ call.R = Null
    /\ W_entry # ZeroM(Rows(W_entry), Cols(W_entry))
    /\ W = W_entry

(***************************************************************************)
(* calc_num_significant on its own.  The singular values are decreasing    *)
(* sequences of at most MaxLen values; the function is evaluated in exact  *)
(* arithmetic (p = 0) and in floating point with a significand of          *)
(* MantissaBits bits, where the arguments are the nearest representable    *)
(* values.                                                                 *)
(***************************************************************************)
MaxLen == 4
MantissaBits == 4

Sigmas == {<<2, 1>>, One, <<1, 2>>, <<1, 8>>, Zero}

SingularValues ==
    UNION { {sv \in [1..n -> Sigmas] : \A i \in 1..(n - 1) : ~LessQ(sv[i], sv[i + 1])}
            : n \in 1..MaxLen }

Thresholds == {<<-1, 2>>, Zero, <<1, 4>>, <<1, 2>>, <<99, 100>>, One}

Idle ==
    /\ W = ZeroM(2, 2)
    /\ pc = "idle"
    /\ call = Null
    /\ W_entry = Null
    /\ Omega = Null
    /\ S = Null
    /\ H = Null
    /\ svd0 = Null
    /\ ret = Null
    /\ error = "none"

InitRank ==
    /\ Idle
    /\ residual = Null
    /\ rankSel \in { [singular_values |-> sv, truncation |-> Round(t, p), p |-> p,
                      pc |-> "called", num_significant |-> 0] :
                     sv \in SingularValues, t \in Thresholds, p \in {0, MantissaBits} }

\* Lines 18-38.
CalcNumSignificant ==
    /\ rankSel.pc = "called"
    /\ rankSel' = [rankSel EXCEPT
           !.pc = "returned",
           !.num_significant = calc_num_significant(rankSel.singular_values,
                                                    rankSel.truncation, rankSel.p)]
    /\ UNCHANGED <<W, pc, call, W_entry, Omega, S, H, svd0, ret, error, residual>>

SpecRank == InitRank /\ [][CalcNumSignificant]_vars

\* The fraction the rule looks at before including value k + 1: the sum of
\* the first k squares over the sum of all squares, as the p-bit arithmetic
\* gives them.
CumulativeFraction(sv, k, p) ==
    FDiv(squaredNorm(SubSeq(sv, 1, k), p), squaredNorm(sv, p), p)

\* k is the smallest count whose cumulative fraction is >= t, or the length
\* if there is none.
IsSmallestCount(k, sv, t, p) ==
    /\ k \in 0..Len(sv)
    /\ \A j \in 0..(k - 1) : LessQ(CumulativeFraction(sv, j, p), t)
    /\ k < Len(sv) => ~LessQ(CumulativeFraction(sv, k, p), t)

StrictlyPositive(sv) == \A i \in 1..Len(sv) : LessQ(Zero, sv[i])

MaxDim == 2

Coefficients == {-1, 0, 2}

InitMakeD ==
    /\ Idle
    /\ rankSel = Null
    /\ residual \in
          { [obs_values |-> [i \in 1..m |-> <<a * i - 1, 1>>],
             E |-> [i \in 1..m |-> [j \in 1..n |-> <<b * i + c * j, 1>>]],
             S |-> [i \in 1..m |-> [j \in 1..n |-> <<d * (i - j) + e, 1>>]],
             pc |-> "called", D |-> Null] :
            m \in 1..MaxDim, n \in 1..MaxDim,
            a \in Coefficients, b \in Coefficients, c \in Coefficients,
            d \in Coefficients, e \in Coefficients }

\* Lines 275-283.
MakeD ==
    /\ residual.pc = "called"
    /\ residual' = [residual EXCEPT
           !.pc = "returned",
           !.D = makeD(residual.obs_values, residual.E, residual.S)]
    /\ UNCHANGED <<W, pc, call, W_entry, Omega, S, H, svd0, ret, error, rankSel>>

SpecMakeD == InitMakeD /\ [][MakeD]_vars

\* The matrix returned has the shape of E and D[i][j] = E[i][j] - P[i][j] +
\* obs[i] (the arguments are integers); with E = 0, D[i][j] = obs[i] - P[i][j].
MakeDResult ==
    (residual # Null /\ residual.pc = "returned") =>
        /\ Rows(residual.D) = Rows(residual.E)
        /\ Cols(residual.D) = Cols(residual.E)
        /\ \A i \in 1..Rows(residual.E) : \A j \in 1..Cols(residual.E) :
              /\ residual.D[i][j] =
                     <<residual.E[i][j][1] - residual.S[i][j][1]
                           + residual.obs_values[i][1], 1>>
              /\ residual.E = ZeroM(Rows(residual.E), Cols(residual.E)) =>
                     residual.D[i][j] =
                         <<residual.obs_values[i][1] - residual.S[i][j][1], 1>>

\* The call leaves its arguments as they were.
MakeDFrame ==
    residual # Null =>
        /\ residual'.obs_values = residual.obs_values
        /\ residual'.E = residual.E
        /\ residual'.S = residual.S

\* C8: makeD(obs, E, P) returns the m x n matrix D with D[i][j] = E[i][j] -
\* P[i][j] + obs[i], which for E = 0 is obs[i] - P[i][j], and leaves obs, E
\* and P unchanged.
C8_MakeResidual == []MakeDResult /\ [][MakeDFrame]_vars

\* makeD has returned for a 2 x 2 problem with E # 0, P # E and obs # 0.
C8_Witness ==
    /\ residual # Null
    /\ residual.pc = "returned"
    /\ Rows(residual.E) = 2 /\ Cols(residual.E) = 2
    /\ residual.E # ZeroM(2, 2)
    /\ residual.S # residual.E
    /\ residual.obs_values # <<Zero, Zero>>
    /\ residual.D # MatSub(residual.E, residual.S)
====
